---------------------------- MODULE Spec2Model ----------------------------
(***************************************************************************)
(* The AllkNN executable (src/mlpack/methods/neighbor_search/              *)
(* allknn_main.cpp) as a state machine: main() is stepped statement group  *)
(* by statement group (pc), from the parameters it reads to the matrices   *)
(* it hands to data::Save.                                                 *)
(*                                                                         *)
(* Conventions.                                                            *)
(*  - Matrices are sequences of columns; the model's index i+1 is the      *)
(*    code's column i, so [0, n) of the code is 1..n here.                 *)
(*  - Distances are squared Euclidean distances over integer coordinates   *)
(*    (the square root is monotone, so every comparison is preserved).     *)
(*  - BinarySpaceTree, AllkNN (NeighborSearch), data::Load/Save, CLI and   *)
(*    Log are not part of the source file; what they do is taken from the  *)
(*    design document (sections 3, 4 and 7) and marked so in the map.      *)
(***************************************************************************)
EXTENDS Integers, Sequences, FiniteSets, TLC

(***************************************************************************)
(* Bounds of the model.                                                    *)
(***************************************************************************)
\* largest number of reference points (columns of the reference matrix)
MaxN == 3
\* largest number of points of a separate query set
MaxQ == 2
\* width of size_t in the model: the target has 64 bits, TLC's integers have
\* 32, so the wrap-around of the int -> size_t conversion is kept at this width
SizeTBits == 16

\* the points a matrix column may hold (the first three points of the example
\* of section 8 of the design document: two points tie at distance 1 from
\* (0,0), and the two axes have the same spread)
PointSet == { <<0, 0>>, <<1, 0>>, <<0, 1>> }
Dims == 1..2

\* an object that does not exist (yet) is the empty sequence, one that does is
\* the one-element sequence of its value
None == << >>
Some(x) == << x >>
Nil == "nil"
\* contents of memory read after its owner was destroyed, or through an
\* out-of-range index, when the read does not crash: no index (indices are
\* >= 1) and no distance (distances are >= 0)
Indeterminate == 0 - 1

RefInputs == UNION { [1..n -> PointSet] : n \in 0..MaxN }
QueryInputs == UNION { [1..n -> PointSet] : n \in 1..MaxQ }
\* values of --k (an int), values of --leaf_size (an int)
KParams == (-2)..(MaxN + 1)
\* (leaf sizes 0 and 1 build the same tree: a single point is always a leaf)
LeafSizes == { -1, 0, 2 }

(***************************************************************************)
(* Geometry: squared distance, bounding volume (HRectBound), bound         *)
(* distances.                                                              *)
(***************************************************************************)
Sq(x) == x * x

SqDist(a, b) == Sq(a[1] - b[1]) + Sq(a[2] - b[2])

MinOf(S) == CHOOSE x \in S : \A y \in S : x <= y
MaxOf(S) == CHOOSE x \in S : \A y \in S : x >= y

\* larger than every squared distance between two points of PointSet
Infinity == MaxOf({ SqDist(a, b) : a \in PointSet, b \in PointSet }) + 1

\* the per-axis min/max over a non-empty sequence of points
BoundOf(pts) ==
  [ lo |-> [d \in Dims |-> MinOf({ pts[i][d] : i \in 1..Len(pts) })],
    hi |-> [d \in Dims |-> MaxOf({ pts[i][d] : i \in 1..Len(pts) })] ]

\* per-axis gap between the value x and the interval [lo, hi]
AxisGap(x, lo, hi) == IF x < lo THEN lo - x ELSE IF x > hi THEN x - hi ELSE 0

\* MinDistance(point): 0 inside the box, else the distance to its nearest face
MinDistPoint(node, p) ==
  Sq(AxisGap(p[1], node.lo[1], node.hi[1])) + Sq(AxisGap(p[2], node.lo[2], node.hi[2]))

\* per-axis gap between the intervals [alo, ahi] and [blo, bhi]
BoxGap(alo, ahi, blo, bhi) ==
  IF ahi < blo THEN blo - ahi ELSE IF bhi < alo THEN alo - bhi ELSE 0

\* MinDistance(otherVolume)
MinDistBox(a, b) ==
  Sq(BoxGap(a.lo[1], a.hi[1], b.lo[1], b.hi[1])) + Sq(BoxGap(a.lo[2], a.hi[2], b.lo[2], b.hi[2]))

(***************************************************************************)
(* PartitionTree (BinarySpaceTree): Build.                                 *)
(* SplitNode(data, order, begin, leafSize) builds the node of the columns  *)
(* order (original column indices, in their current storage order) that    *)
(* will sit at positions begin .. begin+Len(order)-1, and returns the node *)
(* with the final order of its range.  A node is a leaf when its count is  *)
(* <= leafSize, or when its volume has no spread left (no midpoint split   *)
(* can separate equal points).                                             *)
(***************************************************************************)
WidestDim(b) == IF b.hi[2] - b.lo[2] > b.hi[1] - b.lo[1] THEN 2 ELSE 1

RECURSIVE SplitNode(_, _, _, _)
SplitNode(data, order, begin, leafSize) ==
  LET pts == [i \in 1..Len(order) |-> data[order[i]]]
      b == BoundOf(pts)
      dim == WidestDim(b)
      GoesLeft(c) == 2 * data[c][dim] < b.lo[dim] + b.hi[dim]
      GoesRight(c) == ~GoesLeft(c)
  IN IF Len(order) <= leafSize \/ b.hi[dim] = b.lo[dim]
       THEN [ node |-> [ leaf |-> TRUE, begin |-> begin, count |-> Len(order),
                         lo |-> b.lo, hi |-> b.hi ],
              order |-> order ]
       ELSE LET l == SplitNode(data, SelectSeq(order, GoesLeft), begin, leafSize)
                r == SplitNode(data, SelectSeq(order, GoesRight),
                               begin + Len(l.order), leafSize)
            IN [ node |-> [ leaf |-> FALSE, begin |-> begin, count |-> Len(order),
                            lo |-> b.lo, hi |-> b.hi,
                            left |-> l.node, right |-> r.node ],
                 order |-> l.order \o r.order ]

\* the constructor BinarySpaceTree(data, oldFromNew, leafSize): the tree, the
\* matrix reordered in place, and the mapping tree-internal index -> original
\* index it writes into the vector it is given
BuildTree(data, leafSize) ==
  LET s == SplitNode(data, [i \in 1..Len(data) |-> i], 1, leafSize)
  IN [ root |-> s.node,
       oldFromNew |-> s.order,
       data |-> [i \in 1..Len(data) |-> data[s.order[i]]] ]

(***************************************************************************)
(* CandidateSet: at most k (distance, index) pairs, ascending by distance. *)
(***************************************************************************)
InsertSorted(cs, e) ==
  LET pos == Cardinality({ i \in 1..Len(cs) : cs[i][1] <= e[1] })
  IN SubSeq(cs, 1, pos) \o << e >> \o SubSeq(cs, pos + 1, Len(cs))

Worst(cs, k) == IF Len(cs) < k THEN Infinity ELSE cs[k][1]

Insert(cs, d, j, k) ==
  IF Len(cs) < k THEN InsertSorted(cs, << d, j >>)
  ELSE IF d < Worst(cs, k) THEN SubSeq(InsertSorted(cs, << d, j >>), 1, k)
  ELSE cs

\* brute force of one query point against the reference columns from..to
RECURSIVE ScanRange(_, _, _, _, _, _)
ScanRange(cs, q, refData, from, to, k) ==
  IF from > to THEN cs
  ELSE ScanRange(Insert(cs, SqDist(q, refData[from]), from, k), q, refData, from + 1, to, k)

(***************************************************************************)
(* SearchEngine: the three modes.  Each returns one CandidateSet per query *)
(* column, in tree-internal order and with tree-internal reference indices.*)
(***************************************************************************)
NaiveSearch(queryData, refData, k) ==
  [i \in 1..Len(queryData) |-> ScanRange(<< >>, queryData[i], refData, 1, Len(refData), k)]

RECURSIVE SingleTraverse(_, _, _, _, _)
SingleTraverse(node, q, cs, refData, k) ==
  IF node.leaf
    THEN ScanRange(cs, q, refData, node.begin, node.begin + node.count - 1, k)
  ELSE IF Len(cs) = k /\ MinDistPoint(node, q) >= Worst(cs, k)
    THEN cs
  ELSE LET leftFirst == MinDistPoint(node.left, q) <= MinDistPoint(node.right, q)
           first == IF leftFirst THEN node.left ELSE node.right
           second == IF leftFirst THEN node.right ELSE node.left
       IN SingleTraverse(second, q, SingleTraverse(first, q, cs, refData, k), refData, k)

SingleTreeSearch(queryData, refData, refRoot, k) ==
  [i \in 1..Len(queryData) |-> SingleTraverse(refRoot, queryData[i], << >>, refData, k)]

\* NodeStatistic of a query node: the largest current worst distance among the
\* query points of its subtree (what the bottom-up propagation maintains)
NodeStat(qn, css, k) ==
  MaxOf({ Worst(css[i], k) : i \in qn.begin..(qn.begin + qn.count - 1) })

\* the node pairs in increasing order of inter-volume MinDistance
RECURSIVE OrderPairs(_)
OrderPairs(pairs) ==
  IF pairs = << >> THEN << >>
  ELSE LET key(i) == MinDistBox(pairs[i][1], pairs[i][2])
           m == MinOf({ i \in 1..Len(pairs) : \A j \in 1..Len(pairs) : key(i) <= key(j) })
       IN << pairs[m] >> \o
          OrderPairs(SubSeq(pairs, 1, m - 1) \o SubSeq(pairs, m + 1, Len(pairs)))

RECURSIVE DualTraverse(_, _, _, _, _, _)
RECURSIVE DualVisit(_, _, _, _, _)
DualTraverse(qn, rn, css, queryData, refData, k) ==
  IF MinDistBox(qn, rn) >= NodeStat(qn, css, k) THEN css
  ELSE IF qn.leaf /\ rn.leaf
    THEN [i \in 1..Len(css) |->
            IF i >= qn.begin /\ i < qn.begin + qn.count
              THEN ScanRange(css[i], queryData[i], refData,
                             rn.begin, rn.begin + rn.count - 1, k)
              ELSE css[i]]
  ELSE IF qn.leaf
    THEN DualVisit(OrderPairs(<< <<qn, rn.left>>, <<qn, rn.right>> >>),
                   css, queryData, refData, k)
  ELSE IF rn.leaf
    THEN DualVisit(OrderPairs(<< <<qn.left, rn>>, <<qn.right, rn>> >>),
                   css, queryData, refData, k)
  ELSE DualVisit(OrderPairs(<< <<qn.left, rn.left>>, <<qn.left, rn.right>>,
                               <<qn.right, rn.left>>, <<qn.right, rn.right>> >>),
                 css, queryData, refData, k)

DualVisit(pairs, css, queryData, refData, k) ==
  IF pairs = << >> THEN css
  ELSE DualVisit(Tail(pairs),
                 DualTraverse(pairs[1][1], pairs[1][2], css, queryData, refData, k),
                 queryData, refData, k)

DualTreeSearch(queryData, refData, queryRoot, refRoot, k) ==
  DualTraverse(queryRoot, refRoot, [i \in 1..Len(queryData) |-> << >>],
               queryData, refData, k)

\* the mode the engine runs in, fixed at construction: the naive flag wins,
\* otherwise the single-tree flag chooses between single-tree and dual-tree
SearchMode(naiveFlag, singleFlag) ==
  IF naiveFlag THEN "naive" ELSE IF singleFlag THEN "single" ELSE "dual"

\* the objects of main() that Search dereferences in each mode
SearchUses(engine) ==
  CASE engine.mode = "naive"  -> { engine.referenceSet, engine.querySet }
    [] engine.mode = "single" -> { engine.referenceSet, engine.querySet, engine.referenceTree }
    [] engine.mode = "dual"   -> { engine.referenceSet, engine.querySet,
                                   engine.referenceTree, engine.queryTree }

\* Search(k, neighbors, distances) on intact objects
SearchResults(mode, queryData, refData, queryRoot, refRoot, k) ==
  LET css == CASE mode = "naive"  -> NaiveSearch(queryData, refData, k)
               [] mode = "single" -> SingleTreeSearch(queryData, refData, refRoot, k)
               [] mode = "dual"   -> DualTreeSearch(queryData, refData, queryRoot, refRoot, k)
  IN [ neighbors |-> [i \in 1..Len(queryData) |-> [j \in 1..k |-> css[i][j][2]]],
       distances |-> [i \in 1..Len(queryData) |-> [j \in 1..k |-> css[i][j][1]]] ]

\* a k x nq matrix whose entries are indeterminate
IndeterminateMatrix(nq, k) == [i \in 1..nq |-> [j \in 1..k |-> Indeterminate]]

(***************************************************************************)
(* The state of main().                                                    *)
(***************************************************************************)
VARIABLES
  pc,                 \* position in main()
  kParam,             \* --k as given (an int)
  k,                  \* size_t k
  leafSize,           \* int leafSize
  naive,              \* --naive
  singleMode,         \* --single_mode
  hasQuery,           \* --query_file is not ""
  refInput,           \* the reference file's matrix, as loaded (history)
  queryInput,         \* the query file's matrix, as loaded (history)
  referenceData,      \* arma::mat referenceData (reordered by the tree build)
  queryData,          \* arma::mat queryData
  oldFromNewRefs,     \* std::vector<size_t> oldFromNewRefs
  oldFromNewQueries,  \* std::vector<size_t> oldFromNewQueries
  refTree,            \* refTree: None, or its root
  queryTree,          \* queryTree: None, or its root
  builtRefPerm,       \* the mapping refTree's construction recorded (history)
  builtQueryPerm,     \* the mapping queryTree's construction recorded (history)
  live,               \* the objects of main() whose lifetime has begun and not ended
  allknn,             \* the engine: None, or its mode and the objects it points to
  neighbors,          \* arma::Mat<size_t> neighbors
  distances,          \* arma::mat distances
  modeUsed,           \* the mode Search ran in (history)
  usedDestroyed,      \* the objects Search dereferenced after their destruction (history)
  col,                \* the remap loop's i (+1)
  lastWrite,          \* the write of the remap loop's current iteration (None outside the loop)
  saved,              \* what was handed to data::Save, or None
  fatal,              \* the Log::Fatal signal raised, or "none"
  warned              \* the --single_mode warning was logged

vars == << pc, kParam, k, leafSize, naive, singleMode, hasQuery, refInput, queryInput,
           referenceData, queryData, oldFromNewRefs, oldFromNewQueries, refTree,
           queryTree, builtRefPerm, builtQueryPerm, live, allknn, neighbors,
           distances, modeUsed, usedDestroyed, col, lastWrite, saved, fatal, warned >>

params == << kParam, k, leafSize, naive, singleMode, hasQuery >>
refVars == << refInput, referenceData, oldFromNewRefs, refTree, builtRefPerm >>
queryVars == << queryInput, queryData, oldFromNewQueries, queryTree, builtQueryPerm >>
searchVars == << allknn, neighbors, distances, modeUsed, usedDestroyed >>
outVars == << col, lastWrite, saved >>

Init ==
  /\ pc = "start"
  /\ kParam = 0 /\ k = 0 /\ leafSize = 0
  /\ naive = FALSE /\ singleMode = FALSE /\ hasQuery = FALSE
  /\ refInput = << >> /\ queryInput = << >>
  /\ referenceData = << >> /\ queryData = << >>
  /\ oldFromNewRefs = << >> /\ oldFromNewQueries = << >>
  /\ refTree = None /\ queryTree = None
  /\ builtRefPerm = << >> /\ builtQueryPerm = << >>
  /\ live = { }
  /\ allknn = None
  /\ neighbors = << >> /\ distances = << >>
  /\ modeUsed = Nil /\ usedDestroyed = { }
  /\ col = 1 /\ lastWrite = None /\ saved = None
  /\ fatal = "none" /\ warned = FALSE

\* size_t k = CLI::GetParam<int>("k"): the conversion wraps a negative int
ToSizeT(x) == x % (2 ^ SizeTBits)

\* Log::Fatal << ... << endl: the signal is raised and the program ends
LogFatal(signal) == pc' = "halted" /\ fatal' = signal

\* lines 57-71: the parameters are read
GetParams ==
  /\ pc = "start"
  /\ \E kp \in KParams, ls \in LeafSizes, nv \in BOOLEAN, sm \in BOOLEAN, hq \in BOOLEAN :
       /\ kParam' = kp /\ k' = ToSizeT(kp) /\ leafSize' = ls
       /\ naive' = nv /\ singleMode' = sm /\ hasQuery' = hq
  /\ pc' = "loadRef"
  /\ UNCHANGED << refVars, queryVars, live, searchVars, outVars, fatal, warned >>

\* lines 73-77: the reference matrix is loaded, or the file is not found
LoadReference ==
  /\ pc = "loadRef"
  /\ \/ /\ \E m \in RefInputs : refInput' = m /\ referenceData' = m
        /\ live' = live \cup { "referenceData" }
        /\ pc' = "checkK"
        /\ fatal' = fatal
     \/ /\ LogFatal("reference_not_found")
        /\ UNCHANGED << refInput, referenceData, live >>
  /\ UNCHANGED << params, oldFromNewRefs, refTree, builtRefPerm, queryVars,
                  searchVars, outVars, warned >>

\* line 81: (k <= 0) || (k >= referenceData.n_cols), on unsigned operands
KInvalidOffByOne(kk, ncols) == (kk <= 0) \/ (kk > ncols)
KInvalid(kk, ncols) == (kk <= 0) \/ (kk >= ncols)

\* lines 79-86: sanity check on k
CheckK ==
  /\ pc = "checkK"
  /\ IF KInvalid(k, Len(referenceData))
       THEN LogFatal("invalid_k")
       ELSE pc' = "checkLeaf" /\ fatal' = fatal
  /\ UNCHANGED << params, refVars, queryVars, live, searchVars, outVars, warned >>

\* the leaf size check as it would be with a log stream that does not end the program
CheckLeafSizeNoHalt ==
  /\ pc = "checkLeaf"
  /\ fatal' = IF leafSize < 0 THEN "invalid_leaf_size" ELSE fatal
  /\ pc' = "modeWarn"
  /\ UNCHANGED << params, refVars, queryVars, live, searchVars, outVars, warned >>

\* the leaf size check raising the signal of the k check
CheckLeafSizeSameSignal ==
  /\ pc = "checkLeaf"
  /\ IF leafSize < 0
       THEN LogFatal("invalid_k")
       ELSE pc' = "modeWarn" /\ fatal' = fatal
  /\ UNCHANGED << params, refVars, queryVars, live, searchVars, outVars, warned >>

\* lines 88-93: sanity check on leaf size
CheckLeafSize ==
  /\ pc = "checkLeaf"
  /\ IF leafSize < 0
       THEN LogFatal("invalid_leaf_size")
       ELSE pc' = "modeWarn" /\ fatal' = fatal
  /\ UNCHANGED << params, refVars, queryVars, live, searchVars, outVars, warned >>

\* lines 95-105: naive overrides single mode, with a warning only
ModeWarning ==
  /\ pc = "modeWarn"
  /\ warned' = (singleMode /\ naive)
  /\ pc' = "buildRef"
  /\ UNCHANGED << params, refVars, queryVars, live, searchVars, outVars, fatal >>

\* lines 107-120: refTree(referenceData, oldFromNewRefs, leafSize)
BuildReferenceTree ==
  /\ pc = "buildRef"
  /\ LET t == BuildTree(referenceData, leafSize)
     IN /\ refTree' = Some(t.root)
        /\ referenceData' = t.data
        /\ oldFromNewRefs' = t.oldFromNew
        /\ builtRefPerm' = t.oldFromNew
  /\ live' = live \cup { "refTree" }
  /\ pc' = IF hasQuery THEN "loadQuery" ELSE "construct"
  /\ UNCHANGED << params, refInput, queryVars, searchVars, outVars, fatal, warned >>

\* lines 122-130: the query matrix is loaded, or the file is not found
LoadQuery ==
  /\ pc = "loadQuery"
  /\ \/ /\ \E m \in QueryInputs : queryInput' = m /\ queryData' = m
        /\ live' = live \cup { "queryData" }
        /\ pc' = "buildQuery"
        /\ fatal' = fatal
     \/ /\ LogFatal("query_not_found")
        /\ UNCHANGED << queryInput, queryData, live >>
  /\ UNCHANGED << params, refVars, oldFromNewQueries, queryTree, builtQueryPerm,
                  searchVars, outVars, warned >>

\* lines 132-141: queryTree(queryData, oldFromNewRefs, leafSize): the mapping
\* is written into oldFromNewRefs
BuildQueryTree ==
  /\ pc = "buildQuery"
  /\ LET t == BuildTree(queryData, leafSize)
     IN /\ queryTree' = Some(t.root)
        /\ queryData' = t.data
        /\ oldFromNewRefs' = t.oldFromNew
        /\ builtQueryPerm' = t.oldFromNew
  /\ live' = live \cup { "queryTree" }
  /\ pc' = "construct"
  /\ UNCHANGED << params, refInput, referenceData, refTree, builtRefPerm, queryInput,
                  oldFromNewQueries, searchVars, outVars, fatal, warned >>

\* the flags in the order the AllkNN constructors are given them (lines 143, 150)
CtorFlagsSwapped == << singleMode, naive >>
CtorFlags == << naive, singleMode >>

\* lines 143-146: new AllkNN(referenceData, queryData, naive, singleMode, 20,
\* &refTree, &queryTree)
ConstructWithQuery ==
  /\ pc = "construct" /\ hasQuery
  /\ allknn' = Some([ mode |-> SearchMode(CtorFlags[1], CtorFlags[2]),
                      referenceSet |-> "referenceData", querySet |-> "queryData",
                      referenceTree |-> "refTree", queryTree |-> "queryTree" ])
  /\ live' = live \cup { "allknn" }
  /\ pc' = "leaveBlock"
  /\ UNCHANGED << params, refVars, queryVars, neighbors, distances, modeUsed,
                  usedDestroyed, outVars, fatal, warned >>

\* line 147: the block of the query branch ends; its locals queryTree and
\* queryData are destroyed
LeaveQueryBlock ==
  /\ pc = "leaveBlock"
  /\ live' = live \ { "queryTree", "queryData" }
  /\ pc' = "search"
  /\ UNCHANGED << params, refVars, queryVars, searchVars, outVars, fatal, warned >>

\* lines 148-153: new AllkNN(referenceData, naive, singleMode, 20, &refTree)
ConstructSelf ==
  /\ pc = "construct" /\ ~hasQuery
  /\ allknn' = Some([ mode |-> SearchMode(CtorFlags[1], CtorFlags[2]),
                      referenceSet |-> "referenceData", querySet |-> "referenceData",
                      referenceTree |-> "refTree", queryTree |-> "refTree" ])
  /\ live' = live \cup { "allknn" }
  /\ pc' = "search"
  /\ UNCHANGED << params, refVars, queryVars, neighbors, distances, modeUsed,
                  usedDestroyed, outVars, fatal, warned >>

\* what the engine's pointers designate
QuerySetOf(engine) == IF engine.querySet = "queryData" THEN queryData ELSE referenceData
QueryRootOf(engine) == IF engine.queryTree = "queryTree" THEN queryTree[1] ELSE refTree[1]

\* lines 155-158: allknn->Search(k, neighbors, distances).  With every object
\* it dereferences alive the results are those of the engine's mode; an object
\* destroyed before the call makes the call undefined: it crashes, or finds the
\* old contents still in place, or fills the matrices from other contents.
Search ==
  /\ pc = "search"
  /\ LET engine == allknn[1]
         dead == SearchUses(engine) \ live
         nq == Len(QuerySetOf(engine))
         r == SearchResults(engine.mode, QuerySetOf(engine), referenceData,
                            QueryRootOf(engine), refTree[1], k)
     IN /\ usedDestroyed' = dead
        /\ modeUsed' = engine.mode
        /\ IF dead = { }
             THEN /\ neighbors' = r.neighbors /\ distances' = r.distances
                  /\ pc' = "remap"
             ELSE \/ /\ neighbors' = r.neighbors /\ distances' = r.distances
                     /\ pc' = "remap"
                  \/ /\ neighbors' = IndeterminateMatrix(nq, k)
                     /\ distances' = IndeterminateMatrix(nq, k)
                     /\ pc' = "remap"
                  \/ /\ pc' = "crashed"
                     /\ UNCHANGED << neighbors, distances >>
  /\ UNCHANGED << params, refVars, queryVars, live, allknn, outVars, fatal, warned >>

\* oldFromNewRefs[neighbors(j, i)] for one column of neighbors
TranslateColumn(column) ==
  [j \in 1..Len(column) |->
     IF column[j] \in 1..Len(oldFromNewRefs)
       THEN oldFromNewRefs[column[j]] ELSE Indeterminate]

\* lines 160-178, one iteration of the remap loop: column i of distances and
\* neighbors goes to column oldFromNewQueries[i] of distancesOut and
\* neighborsOut.  An index past the end of a vector is an undefined read: the
\* iteration crashes, or goes on with whatever value the read produced.
\* distancesOut and neighborsOut are never read again (lines 181-182), so only
\* the write of the current iteration is kept, and dropped when the loop ends.
RemapColumn ==
  /\ pc = "remap" /\ col <= Len(distances)
  /\ LET inRange == col \in 1..Len(oldFromNewQueries)
         entries == TranslateColumn(neighbors[col])
         outOfRange == ~inRange \/ \E j \in 1..Len(entries) : entries[j] = Indeterminate
     IN \/ /\ \E dest \in (IF inRange THEN { oldFromNewQueries[col] }
                                       ELSE 1..Len(distances)) :
                lastWrite' = Some([ from |-> col, to |-> dest, entries |-> entries,
                                    distances |-> distances[col] ])
           /\ col' = col + 1
           /\ pc' = pc
        \/ /\ outOfRange
           /\ pc' = "crashed"
           /\ UNCHANGED << col, lastWrite >>
  /\ UNCHANGED << params, refVars, queryVars, live, searchVars, saved, fatal, warned >>

\* lines 180-182: data::Save(distancesFile, distances);
\* data::Save(neighborsFile, neighbors)
SaveOutput ==
  /\ pc = "remap" /\ col > Len(distances)
  /\ saved' = Some([ distances |-> distances, neighbors |-> neighbors ])
  /\ lastWrite' = None
  /\ pc' = "delete"
  /\ UNCHANGED << params, refVars, queryVars, live, searchVars, col, fatal, warned >>

\* lines 184-185: delete allknn; main returns and its locals are destroyed
DeleteEngine ==
  /\ pc = "delete"
  /\ live' = { }
  /\ pc' = "done"
  /\ UNCHANGED << params, refVars, queryVars, searchVars, outVars, fatal, warned >>

Next ==
  \/ GetParams
  \/ LoadReference
  \/ CheckK
  \/ CheckLeafSize
  \/ ModeWarning
  \/ BuildReferenceTree
  \/ LoadQuery
  \/ BuildQueryTree
  \/ ConstructWithQuery
  \/ LeaveQueryBlock
  \/ ConstructSelf
  \/ Search
  \/ RemapColumn
  \/ SaveOutput
  \/ DeleteEngine

Spec == Init /\ [][Next]_vars

(***************************************************************************)
(* Vocabulary of the properties.                                           *)
(***************************************************************************)
\* the reference matrix has been loaded
Loaded == pc \notin { "start", "loadRef" } /\ fatal # "reference_not_found"

\* the k check has been executed
KChecked == Loaded /\ pc # "checkK"

\* the requested k lies in [1, n-1], n the number of reference points
KInRange == kParam >= 1 /\ kParam <= Len(refInput) - 1

\* invalid k, negative leaf size or empty reference set
ConfigError == ~KInRange \/ leafSize < 0 \/ Len(refInput) = 0

\* no tree was built, no engine made, nothing searched, remapped or saved
NothingComputed ==
  /\ refTree = None /\ queryTree = None /\ allknn = None
  /\ referenceData = refInput /\ oldFromNewRefs = << >>
  /\ neighbors = << >> /\ distances = << >>
  /\ lastWrite = None /\ saved = None

\* Search has returned
SearchReturned == pc \in { "remap", "delete", "done" }

\* s is a bijection on 1..n
IsPermutation(s, n) == Len(s) = n /\ { s[i] : i \in 1..Len(s) } = 1..n

\* the query points in their original column order, and the mapping their
\* tree-internal order was given by the construction that reordered them
QueryOrig == IF hasQuery THEN queryInput ELSE refInput
TrueQueryPerm == IF hasQuery THEN builtQueryPerm ELSE builtRefPerm

\* (nbrs, dsts) is an exact k-nearest-neighbour result of point q in refData:
\* k distinct reference indices, each with its true distance, ascending, and no
\* reference point left out is strictly nearer than the farthest one reported
ExactKnn(nbrs, dsts, q, refData, kk) ==
  /\ Len(nbrs) = kk /\ Len(dsts) = kk
  /\ \A j \in 1..kk : nbrs[j] \in 1..Len(refData)
  /\ \A j \in 1..kk : dsts[j] = SqDist(q, refData[nbrs[j]])
  /\ \A a, b \in 1..kk : a < b => dsts[a] <= dsts[b] /\ nbrs[a] # nbrs[b]
  /\ \A o \in 1..Len(refData) :
       (\A j \in 1..kk : nbrs[j] # o) => SqDist(q, refData[o]) >= dsts[kk]

\* the matrices the remap step is meant to produce from the search results:
\* tree-internal query column i at original column TrueQueryPerm[i], each
\* neighbour entry translated by the reference tree's mapping
RemappedNeighbors ==
  [c \in 1..Len(neighbors) |->
     LET i == CHOOSE x \in 1..Len(TrueQueryPerm) : TrueQueryPerm[x] = c
     IN [j \in 1..Len(neighbors[i]) |->
           IF neighbors[i][j] \in 1..Len(builtRefPerm)
             THEN builtRefPerm[neighbors[i][j]] ELSE Indeterminate]]

RemappedDistances ==
  [c \in 1..Len(distances) |->
     distances[CHOOSE x \in 1..Len(TrueQueryPerm) : TrueQueryPerm[x] = c]]

(***************************************************************************)
(* The properties.                                                         *)
(***************************************************************************)

\* C1: in every run that reaches data::Save, the matrices handed to it are the
\* remapped ones: column c of both belongs to the query point of original
\* column c, and every neighbour index is an original column index of the
\* reference matrix.
C1_SavedOutputIsRemapped ==
  saved # None =>
    /\ \A c \in 1..Len(saved[1].neighbors) : \A j \in 1..Len(saved[1].neighbors[c]) :
         saved[1].neighbors[c][j] \in 1..Len(refInput)
    /\ saved[1].neighbors = RemappedNeighbors
    /\ saved[1].distances = RemappedDistances
    /\ \A c \in 1..Len(saved[1].neighbors) : \A j \in 1..Len(saved[1].neighbors[c]) :
         saved[1].distances[c][j] = SqDist(QueryOrig[c], refInput[saved[1].neighbors[c][j]])

\* C2: whatever the mode (naive, single-tree, dual-tree), when Search returns
\* every query point has an exact k-nearest-neighbour result, the same up to
\* the choice among equal distances.
C2_EveryModeExact ==
  SearchReturned =>
    \A i \in 1..Len(neighbors) :
      ExactKnn(neighbors[i], distances[i],
               (IF hasQuery THEN queryData ELSE referenceData)[i], referenceData, kParam)

\* In the runs without a separate query set the three modes are exact: the
\* pruning of the single-tree and dual-tree traversals loses no neighbour.
SelfSearchExact == ~hasQuery => C2_EveryModeExact

\* C3: once the k check has run, the run was rejected with the invalid-k
\* signal exactly when the requested k (as a signed integer) is outside
\* [1, n-1].
C3_KRejectedIffOutsideRange ==
  KChecked => /\ (fatal = "invalid_k") <=> ~KInRange
              /\ fatal = "invalid_k" => pc = "halted"

C3_NegativeKRejected ==
  pc = "halted" /\ fatal = "invalid_k" /\ kParam < 0 /\ Len(refInput) >= 2

\* C4: a configuration error (invalid k, negative leaf size, empty reference
\* set) ends the run at its check: the signal is raised with nothing computed,
\* no step follows it, and no run with such a configuration gets past the
\* checks.
C4_ConfigErrorHaltsBeforeComputation ==
  /\ fatal \in { "invalid_k", "invalid_leaf_size" } =>
       pc = "halted" /\ NothingComputed /\ ~ENABLED Next
  /\ (Loaded /\ ConfigError) =>
       pc \in { "checkK", "checkLeaf", "halted" } /\ NothingComputed

C4_NegativeLeafSizeHalted ==
  pc = "halted" /\ fatal = "invalid_leaf_size" /\ leafSize < 0 /\ NothingComputed

\* C5: without a separate query set, in the remap loop the query mapping is
\* the reference mapping: one entry per query column, so every index read from
\* it is in range, and tree-internal column i is written to column
\* oldFromNewRefs[i].
C5_SelfSearchQueryMappingIsReferenceMapping ==
  (~hasQuery /\ pc = "remap") =>
    /\ oldFromNewQueries = oldFromNewRefs
    /\ Len(oldFromNewQueries) = Len(distances)
    /\ col <= Len(distances) => col \in 1..Len(oldFromNewQueries)
    /\ lastWrite # None => lastWrite[1].to = oldFromNewRefs[lastWrite[1].from]

\* C6: with a separate query set, in the remap loop tree-internal query column
\* i is written to the original index the query tree's construction recorded
\* for i, and neighbour entry j becomes the original index the reference
\* tree's construction recorded for j.
C6_RemapInvertsBothConstructions ==
  (hasQuery /\ pc = "remap") =>
    /\ oldFromNewQueries = builtQueryPerm
    /\ oldFromNewRefs = builtRefPerm
    /\ lastWrite # None =>
         /\ lastWrite[1].to = builtQueryPerm[lastWrite[1].from]
         /\ lastWrite[1].entries =
              [j \in 1..Len(neighbors[lastWrite[1].from]) |->
                 builtRefPerm[neighbors[lastWrite[1].from][j]]]

\* C7: every object the engine dereferences in Search is alive when Search
\* runs, and none was torn down before the search finished.
C7_SearchUsesLiveObjectsOnly ==
  /\ usedDestroyed = { }
  /\ pc = "search" => SearchUses(allknn[1]) \subseteq live

\* C8: from the construction of the reference tree to the end of the remap
\* loop, oldFromNewRefs is the bijection on [0, n) that the reference tree's
\* construction recorded.
C8_ReferenceMappingWrittenOnce ==
  (refTree # None /\ pc \notin { "delete", "done" }) =>
    /\ oldFromNewRefs = builtRefPerm
    /\ IsPermutation(oldFromNewRefs, Len(refInput))

\* C9 as stated: the signal tells which condition was violated; an invalid-k
\* signal means k is at fault, not an empty reference set, and an
\* invalid-leaf-size signal means the leaf size is at fault.
C9_SignalNamesTheCondition ==
  pc = "halted" =>
    /\ fatal = "invalid_k" => (Len(refInput) > 0 /\ ~KInRange)
    /\ fatal = "invalid_leaf_size" => leafSize < 0

\* C9 as amended: invalid k and negative leaf size have a signal each (with
\* the invalid k reported when both hold); an empty reference set has none of
\* its own and is reported as an invalid k.
C9_KAndLeafSignalsDistinct ==
  /\ (pc = "halted" /\ fatal = "invalid_k") => ~KInRange
  /\ (pc = "halted" /\ fatal = "invalid_leaf_size") => (KInRange /\ leafSize < 0)
  /\ (KChecked /\ pc # "checkLeaf" /\ KInRange /\ leafSize < 0) =>
       (pc = "halted" /\ fatal = "invalid_leaf_size")
  /\ (KChecked /\ Len(refInput) = 0) => (pc = "halted" /\ fatal = "invalid_k")

C9_EmptyReferenceReportedAsInvalidK ==
  pc = "halted" /\ Loaded /\ Len(refInput) = 0 /\ fatal = "invalid_k" /\ kParam >= 1

\* C10: the engine is constructed in naive mode whenever --naive is given
\* (then --single_mode only causes a warning), else in single-tree mode when
\* --single_mode is given, else in dual-tree mode; Search runs in that one
\* mode, with and without a separate query set.
C10_ModeSelection ==
  /\ allknn # None =>
       /\ naive => allknn[1].mode = "naive"
       /\ (~naive /\ singleMode) => allknn[1].mode = "single"
       /\ (~naive /\ ~singleMode) => allknn[1].mode = "dual"
  /\ modeUsed # Nil => (allknn # None /\ modeUsed = allknn[1].mode)
  /\ (KChecked /\ pc \notin { "checkLeaf", "modeWarn", "halted" }) =>
       (warned <=> (naive /\ singleMode))

C10_NaiveOverridesSingleMode ==
  /\ pc = "done" /\ naive /\ singleMode /\ warned
  /\ modeUsed = "naive" /\ saved # None

=============================================================================
